---- MODULE Spec2Model ----
(***************************************************************************)
(* okta-collector: the poll loop (pollEvery / getEvents), the consumer     *)
(* loop of main (handleMessage), the buffered channel between them, and    *)
(* the client's paginated GetLogs with its retryable HTTP call and the     *)
(* link-header cursor extraction (getResultsOffset).                       *)
(*                                                                         *)
(* The temp writer, the output sink and the checkpoint store live in the   *)
(* collector-helpers library; they are modelled from their documented      *)
(* interface.                                                              *)
(***************************************************************************)
EXTENDS Integers, Sequences, FiniteSets, TLC

\* ---------------------------------------------------------------- bounds
\* capacity of chnMessages (5000 in main, scaled down)
maxMessages == 2
\* most events a single response page carries
MaxPageEvents == 2
\* most pages the API serves for one window
MaxPages == 2
\* events the API serves over the whole run
MaxEvents == 3
\* poll cycles started over the whole run (wall-clock ticks)
MaxClock == 2
\* process restarts over the whole run
MaxRestarts == 1

\* ---------------------------------------------------- program constants
initialBackoffMS == 1000
maxBackoffMS == 32000
backoffFactor == 2
rateLimitHttpCode == 429
StatusOK == 200
\* LastPollTimestamp of a checkpoint made by state.New()
NewStateTimestamp == 0
\* the page size asked for
limit == 1000

\* url.Values of a GetLogs call; after = "" when the parameter is not set
Params(since, until, after) ==
    [limit |-> limit, since |-> since, until |-> until, after |-> after]

\* What httpClient.Do gave the attempt: err is a transport error (there is
\* then no response), status the response's StatusCode, slept the number
\* of sleeps the call made before that attempt.
Resp(err, status, slept) == [err |-> err, status |-> status, slept |-> slept]
\* no attempt has returned
NoResp == Resp(FALSE, 0, 0)

VARIABLES
    running,        \* the process is alive
    exitCause,      \* why it is not
    restarts,       \* restarts so far
    pc,             \* pollEvery's position
    currentState,   \* currentState.LastPollTimestamp (in memory)
    stateFile,      \* the persisted checkpoint: <<>> (no file) or <<ts>>
    clock,          \* time.Now(), in poll ticks
    cycle,          \* number of the cycle in progress
    params,         \* GetLogs: the request parameters
    lastPollTime,   \* getEvents' now, as returned to pollEvery
    eventCount,     \* getEvents' count, as returned to pollEvery
    count,          \* GetLogs: count
    afterLink,      \* GetLogs: afterLink
    backoffMs,      \* makeRetryableHttpCall: backoffMs
    events,         \* GetLogs: events of the page being sent
    sendIdx,        \* GetLogs: events of the page already sent
    newAfterLink,   \* GetLogs: newAfterLink
    response,       \* getLogsRequest: Link header of the response read
    resp,           \* what the attempt makeRetryableHttpCall returned on got
    firstPageEmpty, \* the first page this GetLogs call read had no events
    prevRetried,    \* the previous call of this GetLogs was rate-limited
    calls,          \* getLogsRequest calls of this GetLogs call
    pages,          \* pages read by this GetLogs call
    firstId,        \* id of the first event the API serves to this call
    sleeps,         \* backoff sleeps (ms) of the current makeRetryableHttpCall
    queue,          \* chnMessages
    cpc,            \* the consumer's position
    message,        \* the message the consumer holds
    tmpCur,         \* tmpWriter: contents of the open temp file
    LastFilePath,   \* tmpWriter.LastFilePath is set
    lastContent,    \* contents of the file at LastFilePath
    lastExists,     \* the file at LastFilePath is on disk
    delivered,      \* events handed to the Output Sink
    nextId,         \* id of the next event the API serves
    served,         \* every event the API has served
    sentLog,        \* every channel send of this process, in order
    recvLog,        \* every channel receive of this process, in order
    writeLog,       \* every WriteLog call of this process, in order
    steps,          \* the steps pollEvery took in the cycle in progress
    committed       \* cycles whose `until` was saved as the checkpoint

procVars == <<running, exitCause, restarts>>
stateVars == <<currentState, stateFile, committed>>
timeVars == <<clock, cycle>>
fetchVars == <<params, lastPollTime, count, afterLink, backoffMs, events,
               sendIdx, newAfterLink, response, calls, pages, firstId, sleeps,
               nextId, served, resp, firstPageEmpty,
               prevRetried>>
chanVars == <<queue, sentLog, recvLog>>
consVars == <<cpc, message, writeLog>>
tmpVars == <<tmpCur, LastFilePath, lastContent, lastExists>>

vars == <<running, exitCause, restarts, pc, currentState, stateFile, clock,
          cycle, params, lastPollTime, eventCount, count,
          afterLink, backoffMs, events, sendIdx, newAfterLink, response,
          calls, pages, firstId, sleeps, served, queue, cpc, message, tmpCur,
          LastFilePath,
          lastContent, lastExists, delivered, nextId, sentLog, recvLog,
          writeLog, steps, committed, resp, firstPageEmpty,
          prevRetried>>

\* ------------------------------------------------------------- helpers
Range(s) == {s[i] : i \in 1..Len(s)}

Min(S) == CHOOSE x \in S : \A y \in S : x <= y

IsPrefix(s, t) == Len(s) <= Len(t) /\ \A i \in 1..Len(s) : s[i] = t[i]

\* ------------------------------------------------- link header shapes
\* A Link header is the list resp.Header["Link"] of header values; a value
\* is the list of its comma-separated entries.  Of an entry the code reads
\* only whether its text contains "next", what the regular expression
\* <(.*?)>; rel="next" captures from it (match: <<>> or <<url>>), whether
\* url.Parse accepts the captured URL, and the URL's `after` query values.
Cursors == {"x", "y"}

Url(ok, after) == [ok |-> ok, after |-> after]

PartSelf == [hasNext |-> FALSE, match |-> <<>>]

PartNext(u) == [hasNext |-> TRUE, match |-> <<u>>]

\* mentions next but is no <url>; rel="next" (say rel=next, unquoted)
PartNextMalformed == [hasNext |-> TRUE, match |-> <<>>]

HNone == <<>>

HSelfOnly == << <<PartSelf>> >>

HSelfNext(c) == << <<PartSelf, PartNext(Url(TRUE, <<c>>))>> >>

\* a next entry whose URL has no `after` parameter
HNextNoAfter == << <<PartSelf, PartNext(Url(TRUE, <<>>))>> >>

\* a next entry whose URL has an empty `after` parameter
HNextEmptyAfter == << <<PartSelf, PartNext(Url(TRUE, <<"">>))>> >>

\* self and next sent as two header lines
HSeparate == << <<PartSelf>>, <<PartNext(Url(TRUE, <<"x">>))>> >>

HThree == << <<PartSelf, PartSelf, PartNext(Url(TRUE, <<"x">>))>> >>

\* next entry first, self entry second
HNextFirst == << <<PartNext(Url(TRUE, <<"x">>)), PartSelf>> >>

HMalformed == << <<PartSelf, PartNextMalformed>> >>

HBadUrl == << <<PartSelf, PartNext(Url(FALSE, <<>>))>> >>

Headers ==
    {HNone, HSelfOnly, HNextNoAfter, HNextEmptyAfter, HSeparate, HThree,
     HNextFirst, HMalformed, HBadUrl}
    \cup {HSelfNext(c) : c \in Cursors}

\* the outcome of getResultsOffset when it panics (index out of range on a
\* nil match, nil dereference on an unparsed URL)
Panic == "PANIC"

\* strings.Contains(v, "next")
ContainsNext(v) == \E i \in 1..Len(v) : v[i].hasNext

\* faulty variant: no nil check before Query()["after"][0]
AfterOfUrlUnchecked(u) == IF u.after = <<>> THEN Panic ELSE u.after[1]

\* the cursor of a well-formed two-entry value: the first `after` value
AfterOfUrl(u) == IF u.after = <<>> THEN "" ELSE u.after[1]

getResultsOffset(header) ==
    LET idxs == {i \in 1..Len(header) : ContainsNext(header[i])}
    IN  IF idxs = {} THEN ""
        ELSE LET s == header[Min(idxs)]
             IN  IF Len(s) # 2 THEN ""
                 ELSE LET match == s[2].match
                      IN  IF match = <<>> THEN Panic
                          ELSE IF ~match[1].ok THEN Panic
                          ELSE AfterOfUrl(match[1])

\* --------------------------------------------------------------- Init
Init ==
    /\ running = TRUE
    /\ exitCause = "none"
    /\ restarts = 0
    /\ pc = "setup"
    /\ currentState = NewStateTimestamp
    /\ stateFile \in {<<>>, <<NewStateTimestamp>>}
    /\ clock = 0
    /\ cycle = 0
    /\ params = Params(0, 0, "")
    /\ lastPollTime = 0
    /\ eventCount = 0
    /\ count = 0
    /\ afterLink = ""
    /\ backoffMs = initialBackoffMS
    /\ events = <<>>
    /\ sendIdx = 0
    /\ newAfterLink = ""
    /\ response = HNone
    /\ resp = NoResp
    /\ firstPageEmpty = FALSE
    /\ prevRetried = FALSE
    /\ calls = 0
    /\ pages = 0
    /\ firstId = 1
    /\ served = {}
    /\ sleeps = <<>>
    /\ queue = <<>>
    /\ cpc = "recv"
    /\ message = <<>>
    /\ tmpCur = <<>>
    /\ LastFilePath = FALSE
    /\ lastContent = <<>>
    /\ lastExists = FALSE
    /\ delivered = {}
    /\ nextId = 1
    /\ sentLog = <<>>
    /\ recvLog = <<>>
    /\ writeLog = <<>>
    /\ steps = <<>>
    /\ committed = {}

\* ------------------------------------------------------ process exit
\* The process ends: its memory (the channel, the message the consumer
\* holds, the temp writer, every local of pollEvery and GetLogs) is gone.
\* The state file, what the sink received and the API's events are not the
\* process's.  The temp files stay on disk, and no later run opens them.
ProcessGone ==
    /\ running' = FALSE
    /\ queue' = <<>>
    /\ sentLog' = <<>>
    /\ recvLog' = <<>>
    /\ writeLog' = <<>>
    /\ cpc' = "recv"
    /\ message' = <<>>
    /\ tmpCur' = <<>>
    /\ LastFilePath' = FALSE
    /\ lastContent' = <<>>
    /\ lastExists' = FALSE
    /\ eventCount' = 0
    /\ count' = 0
    /\ afterLink' = ""
    /\ backoffMs' = initialBackoffMS
    /\ events' = <<>>
    /\ sendIdx' = 0
    /\ newAfterLink' = ""
    /\ response' = HNone
    /\ firstPageEmpty' = FALSE
    /\ prevRetried' = FALSE
    /\ calls' = 0
    /\ pages' = 0
    /\ sleeps' = <<>>
    /\ currentState' = NewStateTimestamp
    /\ UNCHANGED <<restarts, stateFile, committed, timeVars, delivered,
                   nextId, firstId, served>>

\* log.Fatalf: the diagnostic is logged and the process exits.  `step` is
\* the step that failed; the window of the failed cycle is kept for the
\* diagnostic.
FatalAfter(cause, step, r) ==
    /\ ProcessGone
    /\ exitCause' = cause
    /\ steps' = Append(steps, step)
    /\ pc' = "exited"
    /\ resp' = r
    /\ UNCHANGED <<params, lastPollTime>>

\* log.Fatalf at a step that is no HTTP attempt
Fatal(cause, step) == FatalAfter(cause, step, NoResp)

\* The process is interrupted externally, at any point.
Kill ==
    /\ running
    /\ restarts < MaxRestarts
    /\ ProcessGone
    /\ exitCause' = "killed"
    /\ steps' = <<>>
    /\ pc' = "exited"
    /\ params' = Params(0, 0, "")
    /\ lastPollTime' = 0
    /\ resp' = NoResp

\* main starts again: a new temp writer (a fresh temp file, no
\* LastFilePath), a new empty channel, pollEvery at its setup.
Restart ==
    /\ ~running
    /\ restarts < MaxRestarts
    /\ restarts' = restarts + 1
    /\ running' = TRUE
    /\ exitCause' = "none"
    /\ pc' = "setup"
    /\ steps' = <<>>
    /\ params' = Params(0, 0, "")
    /\ lastPollTime' = 0
    /\ resp' = NoResp
    /\ UNCHANGED <<stateVars, timeVars, firstPageEmpty, prevRetried, count,
                   afterLink, backoffMs, events,
                   sendIdx, newAfterLink, response, calls, pages, firstId,
                   sleeps, nextId, served, eventCount, chanVars, consVars,
                   tmpVars, delivered>>

\* ------------------------------------------------- pollEvery: setup
\* state.Exists and state.Restore succeed
SetupRestore ==
    /\ running /\ pc = "setup"
    /\ stateFile # <<>>
    /\ currentState' = stateFile[1]
    /\ pc' = "loop"
    /\ UNCHANGED <<procVars, stateFile, committed, timeVars, fetchVars,
                   eventCount, chanVars, consVars, tmpVars, delivered, steps>>

\* state.Restore returns an error
SetupRestoreFail ==
    /\ running /\ pc = "setup"
    /\ stateFile # <<>>
    /\ Fatal("restore", "restore_err")

\* no state file: state.New()
SetupNew ==
    /\ running /\ pc = "setup"
    /\ stateFile = <<>>
    /\ currentState' = NewStateTimestamp
    /\ pc' = "loop"
    /\ UNCHANGED <<procVars, stateFile, committed, timeVars, fetchVars,
                   eventCount, chanVars, consVars, tmpVars, delivered, steps>>

\* ------------------------------------- getEvents / GetLogs: the start
\* now := time.Now(); GetLogs(timestamp, now, resultChannel) sets up its
\* variables and its request parameters and enters the page loop, where
\* getLogsRequest -> conductRequest -> makeRetryableHttpCall starts with
\* the initial backoff.
GetEventsStart ==
    /\ running /\ pc = "loop"
    /\ clock < MaxClock
    /\ clock' = clock + 1
    /\ cycle' = cycle + 1
    /\ lastPollTime' = clock + 1
    /\ params' = Params(currentState, clock + 1, "")
    /\ count' = 0
    /\ afterLink' = ""
    /\ backoffMs' = initialBackoffMS
    /\ sleeps' = <<>>
    /\ calls' = 1
    /\ pages' = 0
    /\ firstId' = nextId
    /\ resp' = NoResp
    /\ firstPageEmpty' = FALSE
    /\ prevRetried' = FALSE
    /\ steps' = <<>>
    /\ pc' = "request"
    /\ UNCHANGED <<procVars, stateVars, eventCount, events, sendIdx,
                   newAfterLink, response, nextId, served, chanVars,
                   consVars, tmpVars, delivered>>

\* ------------------------------------------- makeRetryableHttpCall
\* What one attempt does with httpClient.Do's result: "error" (returned at
\* once), "return" (the body is read and returned) or "retry" (sleep
\* backoffMs, double it, attempt again).
\* faulty variant: a transport error is retried like a 429
HttpOutcomeRetryErr(err, status, backoff) ==
    IF ~err /\ status # StatusOK /\ status # rateLimitHttpCode THEN "error"
    ELSE IF ~err /\ (backoff > maxBackoffMS \/ status # rateLimitHttpCode)
         THEN "return"
    ELSE IF err /\ backoff > maxBackoffMS THEN "error"
    ELSE "retry"

\* faulty variant: a 429 is retried however large the backoff has grown
HttpOutcomeNoCap(err, status, backoff) ==
    IF err \/ (status # StatusOK /\ status # rateLimitHttpCode) THEN "error"
    ELSE IF status # rateLimitHttpCode THEN "return"
    ELSE "retry"

\* faulty variant: no test of the status before the rate-limit test, so
\* the body of any response that is no 429 is read and returned
HttpOutcomeAnyStatus(err, status, backoff) ==
    IF err THEN "error"
    ELSE IF backoff > maxBackoffMS \/ status # rateLimitHttpCode THEN "return"
    ELSE "retry"

HttpOutcome(err, status, backoff) ==
    IF err \/ (status # StatusOK /\ status # rateLimitHttpCode) THEN "error"
    ELSE IF backoff > maxBackoffMS \/ status # rateLimitHttpCode THEN "return"
    ELSE "retry"

\* the statuses the API answers with: 200, 429, and one that is neither
Statuses == {StatusOK, rateLimitHttpCode, 500}

\* httpClient.Do returns a transport error: makeRetryableHttpCall,
\* conductRequest, getLogsRequest and GetLogs return it, getEvents exits.
HttpTransportError ==
    /\ running /\ pc = "request"
    /\ \E status \in Statuses : HttpOutcome(TRUE, status, backoffMs) = "error"
    /\ FatalAfter("fetch", "fetch_err", Resp(TRUE, 0, Len(sleeps)))

\* a response whose status is neither 200 nor 429
HttpBadStatus ==
    /\ running /\ pc = "request"
    /\ \E status \in Statuses \ {StatusOK, rateLimitHttpCode} :
           /\ HttpOutcome(FALSE, status, backoffMs) = "error"
           /\ FatalAfter("fetch", "fetch_err", Resp(FALSE, status, Len(sleeps)))

\* a 429 while the backoff is within the cap: sleep, double, attempt again
HttpRateLimited ==
    /\ running /\ pc = "request"
    /\ HttpOutcome(FALSE, rateLimitHttpCode, backoffMs) = "retry"
    /\ sleeps' = Append(sleeps, backoffMs)
    /\ backoffMs' = backoffMs * backoffFactor
    /\ UNCHANGED <<procVars, pc, stateVars, timeVars, params, lastPollTime,
                   count, afterLink, events, sendIdx, newAfterLink, response,
                   calls, pages, firstId, nextId, served, eventCount,
                   resp, firstPageEmpty, prevRetried, chanVars, consVars,
                   tmpVars,
                   delivered, steps>>

\* ------------------------------------------------- getLogsRequest
\* The body is read but ioutil.ReadAll, json.Unmarshal (a body that is no
\* JSON array) or convertLogsToString fails: GetLogs returns the error.
HttpBodyError(status) ==
    /\ running /\ pc = "request"
    /\ HttpOutcome(FALSE, status, backoffMs) = "return"
    /\ FatalAfter("fetch", "fetch_err", Resp(FALSE, status, Len(sleeps)))

\* The body decodes, and getResultsOffset panics on the Link header: the
\* panic is not recovered and the process crashes.
HttpResponsePanic(status, header) ==
    /\ running /\ pc = "request"
    /\ HttpOutcome(FALSE, status, backoffMs) = "return"
    /\ getResultsOffset(header) = Panic
    /\ FatalAfter("panic", "panic", Resp(FALSE, status, Len(sleeps)))

\* The page the API serves: n events, numbered in the order served.
Page(n) == [i \in 1..n |-> [id |-> nextId + i - 1, cycle |-> cycle]]

\* The body decodes into n events and the cursor is extracted: the events
\* are ready to be sent.
HttpResponseOk(status, header, n) ==
    /\ running /\ pc = "request"
    /\ HttpOutcome(FALSE, status, backoffMs) = "return"
    /\ getResultsOffset(header) # Panic
    /\ nextId + n - 1 <= MaxEvents
    /\ pages + 1 < MaxPages \/ getResultsOffset(header) = ""
    /\ events' = Page(n)
    /\ nextId' = nextId + n
    /\ served' = served \cup Range(Page(n))
    /\ sendIdx' = 0
    /\ newAfterLink' = getResultsOffset(header)
    /\ response' = header
    /\ resp' = Resp(FALSE, status, Len(sleeps))
    /\ firstPageEmpty' = IF pages = 0 THEN n = 0 ELSE firstPageEmpty
    /\ pages' = pages + 1
    /\ pc' = "send"
    /\ UNCHANGED <<procVars, stateVars, timeVars, params, lastPollTime,
                   count, afterLink, backoffMs, sleeps, prevRetried, calls,
                   firstId,
                   eventCount, chanVars, consVars, tmpVars, delivered, steps>>

\* --------------------------------------------------- GetLogs: page loop
\* faulty variant: a send that never blocks
CanSendAlways(q) == TRUE

\* a send on the buffered channel goes through when there is room
CanSend(q) == Len(q) < maxMessages

\* resultsChannel <- event: blocks while the channel is full
Send ==
    /\ running /\ pc = "send"
    /\ sendIdx < Len(events)
    /\ CanSend(queue)
    /\ queue' = Append(queue, events[sendIdx + 1])
    /\ sentLog' = Append(sentLog, events[sendIdx + 1])
    /\ sendIdx' = sendIdx + 1
    /\ UNCHANGED <<procVars, pc, stateVars, timeVars, params, lastPollTime,
                   count, afterLink, backoffMs, events, newAfterLink,
                   response, calls, pages, firstId, sleeps, nextId, served,
                   resp, firstPageEmpty, prevRetried, eventCount, recvLog,
                   consVars, tmpVars, delivered, steps>>

\* faulty variant: count = len(events)
NewCountLastPage(c, evs) == Len(evs)

\* faulty variant: the page itself is counted with its events
NewCountPages(c, evs) == c + Len(evs) + 1

\* count += len(events)
NewCount(c, evs) == c + Len(evs)

\* faulty variant: the backoff is kept by the client from one request to
\* the next instead of starting at the initial delay
NextPageKeepsBackoff ==
    /\ running /\ pc = "send"
    /\ sendIdx = Len(events)
    /\ newAfterLink # ""
    /\ count' = NewCount(count, events)
    /\ afterLink' = newAfterLink
    /\ sleeps' = <<>>
    /\ events' = <<>>
    /\ sendIdx' = 0
    /\ newAfterLink' = ""
    /\ response' = HNone
    /\ resp' = NoResp
    /\ params' = [params EXCEPT !.after = newAfterLink]
    /\ prevRetried' = (sleeps # <<>>)
    /\ calls' = calls + 1
    /\ pc' = "request"
    /\ UNCHANGED <<procVars, stateVars, timeVars, lastPollTime, pages,
                   firstPageEmpty, firstId, nextId, served, eventCount,
                   backoffMs, chanVars, consVars, tmpVars, delivered, steps>>

\* faulty variant: the request for the next page is issued before the
\* page's events are sent; what was not sent is dropped
NextPageBeforeSend ==
    /\ running /\ pc = "send"
    /\ newAfterLink # ""
    /\ count' = NewCount(count, events)
    /\ afterLink' = newAfterLink
    /\ backoffMs' = initialBackoffMS
    /\ sleeps' = <<>>
    /\ events' = <<>>
    /\ sendIdx' = 0
    /\ newAfterLink' = ""
    /\ response' = HNone
    /\ resp' = NoResp
    /\ params' = [params EXCEPT !.after = newAfterLink]
    /\ prevRetried' = (sleeps # <<>>)
    /\ calls' = calls + 1
    /\ pc' = "request"
    /\ UNCHANGED <<procVars, stateVars, timeVars, lastPollTime, pages,
                   firstPageEmpty, firstId, nextId, served, eventCount,
                   chanVars, consVars, tmpVars, delivered, steps>>

\* faulty variant: the cursor is set as the `next` parameter, so the
\* request for the next page carries no `after`
NextPageSetsNext ==
    /\ running /\ pc = "send"
    /\ sendIdx = Len(events)
    /\ newAfterLink # ""
    /\ count' = NewCount(count, events)
    /\ afterLink' = newAfterLink
    /\ backoffMs' = initialBackoffMS
    /\ sleeps' = <<>>
    /\ events' = <<>>
    /\ sendIdx' = 0
    /\ newAfterLink' = ""
    /\ response' = HNone
    /\ resp' = NoResp
    /\ prevRetried' = (sleeps # <<>>)
    /\ calls' = calls + 1
    /\ pc' = "request"
    /\ UNCHANGED <<procVars, stateVars, timeVars, params, lastPollTime,
                   pages, firstPageEmpty, firstId, nextId, served,
                   eventCount, chanVars, consVars, tmpVars, delivered, steps>>

\* the page is sent and there is a cursor: the next getLogsRequest sets
\* the `after` parameter and starts a new makeRetryableHttpCall
NextPage ==
    /\ running /\ pc = "send"
    /\ sendIdx = Len(events)
    /\ newAfterLink # ""
    /\ count' = NewCount(count, events)
    /\ afterLink' = newAfterLink
    /\ backoffMs' = initialBackoffMS
    /\ sleeps' = <<>>
    /\ events' = <<>>
    /\ sendIdx' = 0
    /\ newAfterLink' = ""
    /\ response' = HNone
    /\ resp' = NoResp
    /\ params' = [params EXCEPT !.after = newAfterLink]
    /\ prevRetried' = (sleeps # <<>>)
    /\ calls' = calls + 1
    /\ pc' = "request"
    /\ UNCHANGED <<procVars, stateVars, timeVars, lastPollTime, pages,
                   firstPageEmpty, firstId, nextId, served, eventCount,
                   chanVars, consVars,
                   tmpVars, delivered, steps>>

\* faulty variant: the flush is not skipped for an empty cycle
AfterFetchAlwaysFlush(n) == "drain"

\* faulty variant: the loop goes round as soon as the fetch has returned
AfterFetchNextCycle(n) == "loop"

\* if eventCount > 0 { drain, rotate, write, remove }; then the state update
AfterFetch(n) == IF n > 0 THEN "drain" ELSE "update_state"

\* the page is sent and there is no cursor: GetLogs returns count, getEvents
\* returns (count, now), and pollEvery tests eventCount > 0
GetLogsReturn ==
    /\ running /\ pc = "send"
    /\ sendIdx = Len(events)
    /\ newAfterLink = ""
    /\ count' = NewCount(count, events)
    /\ afterLink' = newAfterLink
    /\ eventCount' = NewCount(count, events)
    /\ prevRetried' = FALSE
    /\ backoffMs' = initialBackoffMS
    /\ sleeps' = <<>>
    /\ events' = <<>>
    /\ sendIdx' = 0
    /\ response' = HNone
    /\ resp' = NoResp
    /\ steps' = Append(steps, "fetch")
    /\ pc' = AfterFetch(NewCount(count, events))
    /\ UNCHANGED <<procVars, stateVars, timeVars, params, lastPollTime,
                   newAfterLink, calls, pages, firstPageEmpty, firstId,
                   nextId, served, chanVars, consVars, tmpVars, delivered>>

\* ------------------------------------------- pollEvery: after the fetch
\* faulty variant: the wait's test is inverted (the loop is left while
\* the channel still holds messages)
DrainDoneInverted ==
    /\ running /\ pc = "drain"
    /\ Len(queue) # 0
    /\ steps' = Append(steps, "drain")
    /\ pc' = "rotate"
    /\ UNCHANGED <<procVars, stateVars, timeVars, fetchVars,
                   eventCount, chanVars, consVars, tmpVars, delivered>>

\* for len(resultsChannel) != 0 { sleep 1s }: the loop is left when the
\* channel's length is read as 0
DrainDone ==
    /\ running /\ pc = "drain"
    /\ Len(queue) = 0
    /\ steps' = Append(steps, "drain")
    /\ pc' = "rotate"
    /\ UNCHANGED <<procVars, stateVars, timeVars, fetchVars,
                   eventCount, chanVars, consVars, tmpVars, delivered>>

\* tmpWriter.Rotate(): the open file is closed and becomes LastFilePath, a
\* new one is opened
RotateOk ==
    /\ running /\ pc = "rotate"
    /\ LastFilePath' = TRUE
    /\ lastContent' = tmpCur
    /\ lastExists' = TRUE
    /\ tmpCur' = <<>>
    /\ steps' = Append(steps, "rotate")
    /\ pc' = "write_outputs"
    /\ UNCHANGED <<procVars, stateVars, timeVars, fetchVars,
                   eventCount, chanVars, consVars, delivered>>

\* tmpWriter.Rotate() returns an error, which `_ =` discards: the writer
\* is as it was and pollEvery goes on
RotateFail ==
    /\ running /\ pc = "rotate"
    /\ steps' = Append(steps, "rotate_err")
    /\ pc' = "write_outputs"
    /\ UNCHANGED <<procVars, stateVars, timeVars, fetchVars,
                   eventCount, chanVars, consVars, tmpVars, delivered>>

\* outputs.WriteToOutputs(tmpWriter.LastFilePath, ...) succeeds: the sink
\* has the contents of the file
WriteToOutputsOk ==
    /\ running /\ pc = "write_outputs"
    /\ LastFilePath /\ lastExists
    /\ delivered' = delivered \cup Range(lastContent)
    /\ steps' = Append(steps, "sink")
    /\ pc' = "remove"
    /\ UNCHANGED <<procVars, stateVars, timeVars, fetchVars,
                   eventCount, chanVars, consVars, tmpVars>>

\* faulty variant: the error of outputs.WriteToOutputs is discarded
WriteToOutputsFailIgnored ==
    /\ running /\ pc = "write_outputs"
    /\ steps' = Append(steps, "sink_err")
    /\ pc' = "remove"
    /\ UNCHANGED <<procVars, stateVars, timeVars, fetchVars, eventCount,
                   chanVars, consVars, tmpVars, delivered>>

\* outputs.WriteToOutputs returns an error
WriteToOutputsFail ==
    /\ running /\ pc = "write_outputs"
    /\ Fatal("sink", "sink_err")

\* os.Remove(tmpWriter.LastFilePath) succeeds
RemoveOk ==
    /\ running /\ pc = "remove"
    /\ LastFilePath /\ lastExists
    /\ lastExists' = FALSE
    /\ steps' = Append(steps, "remove")
    /\ pc' = "update_state"
    /\ UNCHANGED <<procVars, stateVars, timeVars, fetchVars,
                   eventCount, chanVars, consVars, tmpCur, LastFilePath,
                   lastContent, delivered>>

\* faulty variant: the error of os.Remove is logged and the cycle goes on
RemoveFailIgnored ==
    /\ running /\ pc = "remove"
    /\ steps' = Append(steps, "remove_err")
    /\ pc' = "update_state"
    /\ UNCHANGED <<procVars, stateVars, timeVars, fetchVars, eventCount,
                   chanVars, consVars, tmpVars, delivered>>

\* os.Remove returns an error
RemoveFail ==
    /\ running /\ pc = "remove"
    /\ Fatal("remove", "remove_err")

\* faulty variant: the checkpoint is the time of the save, later than the
\* `now` the fetch used as `until`
UpdateStateLater ==
    /\ running /\ pc = "update_state"
    /\ currentState' = lastPollTime + 1
    /\ stateFile' = <<lastPollTime + 1>>
    /\ committed' = committed \cup {cycle}
    /\ steps' = Append(steps, "save")
    /\ pc' = "sleep"
    /\ UNCHANGED <<procVars, timeVars, fetchVars, eventCount,
                   chanVars, consVars, tmpVars, delivered>>

\* currentState.LastPollTimestamp = lastPollTime; state.Save(currentState)
UpdateState ==
    /\ running /\ pc = "update_state"
    /\ currentState' = lastPollTime
    /\ stateFile' = <<lastPollTime>>
    /\ committed' = committed \cup {cycle}
    /\ steps' = Append(steps, "save")
    /\ pc' = "sleep"
    /\ UNCHANGED <<procVars, timeVars, fetchVars, eventCount,
                   chanVars, consVars, tmpVars, delivered>>

\* <-time.After(seconds): the next iteration of the loop
Sleep ==
    /\ running /\ pc = "sleep"
    /\ steps' = Append(steps, "sleep")
    /\ pc' = "loop"
    /\ UNCHANGED <<procVars, stateVars, timeVars, fetchVars,
                   eventCount, chanVars, consVars, tmpVars, delivered>>

\* --------------------------------------------------- main: the consumer
\* faulty variant: the newest message is received first
ChanRecvNewest(q) == <<q[Len(q)], SubSeq(q, 1, Len(q) - 1)>>

\* a receive from the channel: <<the message, the channel after it>>
ChanRecv(q) == <<Head(q), Tail(q)>>

\* for message := range chnMessages: a message is received
ConsumerRecv ==
    /\ running /\ cpc = "recv"
    /\ queue # <<>>
    /\ message' = <<ChanRecv(queue)[1]>>
    /\ queue' = ChanRecv(queue)[2]
    /\ recvLog' = Append(recvLog, ChanRecv(queue)[1])
    /\ cpc' = "write"
    /\ UNCHANGED <<procVars, pc, stateVars, timeVars, fetchVars,
                   eventCount, sentLog, writeLog, tmpVars, delivered, steps>>

\* faulty variant: WriteLog closes the file it wrote and starts a new one,
\* setting LastFilePath from the consumer
ConsumerWriteLogRotates ==
    /\ running /\ cpc = "write"
    /\ LastFilePath' = TRUE
    /\ lastContent' = Append(tmpCur, message[1])
    /\ lastExists' = TRUE
    /\ tmpCur' = <<>>
    /\ writeLog' = Append(writeLog, message[1])
    /\ message' = <<>>
    /\ cpc' = "recv"
    /\ UNCHANGED <<procVars, pc, stateVars, timeVars, fetchVars,
                   eventCount, chanVars, delivered, steps>>

\* handleMessage: tmpWriter.WriteLog(message) appends to the open file
ConsumerWriteLog ==
    /\ running /\ cpc = "write"
    /\ tmpCur' = Append(tmpCur, message[1])
    /\ writeLog' = Append(writeLog, message[1])
    /\ message' = <<>>
    /\ cpc' = "recv"
    /\ UNCHANGED <<procVars, pc, stateVars, timeVars, fetchVars,
                   eventCount, chanVars, LastFilePath, lastContent,
                   lastExists, delivered, steps>>

\* handleMessage: tmpWriter.WriteLog returns an error
ConsumerWriteLogFail ==
    /\ running /\ cpc = "write"
    /\ Fatal("writelog", "writelog_err")

\* ------------------------------------------------------ specification
Poller ==
    \/ SetupRestore
    \/ SetupRestoreFail
    \/ SetupNew
    \/ GetEventsStart
    \/ HttpTransportError
    \/ HttpBadStatus
    \/ HttpRateLimited
    \/ \E status \in Statuses : HttpBodyError(status)
    \/ \E status \in Statuses, header \in Headers :
           HttpResponsePanic(status, header)
    \/ \E status \in Statuses, header \in Headers, n \in 0..MaxPageEvents :
           HttpResponseOk(status, header, n)
    \/ Send
    \/ NextPage
    \/ GetLogsReturn
    \/ DrainDone
    \/ RotateOk
    \/ RotateFail
    \/ WriteToOutputsOk
    \/ WriteToOutputsFail
    \/ RemoveOk
    \/ RemoveFail
    \/ UpdateState
    \/ Sleep

Consumer ==
    \/ ConsumerRecv
    \/ ConsumerWriteLog
    \/ ConsumerWriteLogFail

\* one run of the process, from its start to its exit
Next == Poller \/ Consumer

Spec == Init /\ [][Next]_vars

\* one run in which every external call (HTTP, state store, temp writer,
\* sink, file removal) succeeds, under the Go scheduler: a goroutine that
\* can take a step eventually takes one
PollerOk ==
    \/ SetupRestore
    \/ SetupNew
    \/ GetEventsStart
    \/ \E header \in Headers, n \in 0..MaxPageEvents :
           HttpResponseOk(StatusOK, header, n)
    \/ Send
    \/ NextPage
    \/ GetLogsReturn
    \/ DrainDone
    \/ RotateOk
    \/ WriteToOutputsOk
    \/ RemoveOk
    \/ UpdateState
    \/ Sleep

ConsumerOk ==
    \/ ConsumerRecv
    \/ ConsumerWriteLog

FairNext == PollerOk \/ ConsumerOk

FairSpec ==
    Init /\ [][FairNext]_vars /\ WF_vars(PollerOk) /\ WF_vars(ConsumerOk)

\* the process with its external interruptions and restarts
NextRestart == Poller \/ Consumer \/ Kill \/ Restart

SpecRestart == Init /\ [][NextRestart]_vars

\* ============================================================== claims
\* the events sent to the channel in the cycle in progress
ThisCycle(e) == e.cycle = cycle

SentThisCycle == SelectSeq(sentLog, ThisCycle)

\* the steps of a cycle that report an error
ErrorSteps ==
    {"restore_err", "fetch_err", "rotate_err", "sink_err", "remove_err"}

\* the steps of the flush
FlushSteps ==
    {"drain", "rotate", "rotate_err", "sink", "sink_err", "remove",
     "remove_err"}

\* GetLogs has returned without error in the cycle in progress
FetchReturned == running /\ steps # <<>> /\ steps[1] = "fetch"

\* C1: once the checkpoint has been set to a cycle's `until`, every record
\* enqueued for that cycle is in a file the Output Sink has received.
C1_CheckpointOnlyAfterFlush ==
    \A i \in 1..Len(sentLog) :
        sentLog[i].cycle \in committed => sentLog[i] \in delivered

\* C2: when pollEvery is about to call Rotate, the consumer holds no record
\* and the open temp file holds exactly the records of this cycle.
C2_RotateAfterAllWrites ==
    pc = "rotate" /\ running => cpc = "recv" /\ tmpCur = SentThisCycle

\* C3: a cycle that ends in a fatal error (the fetch, the sink write or the
\* removal failed) ends the process and leaves the persisted checkpoint as
\* it was at the start of the cycle, never the failed cycle's `now`.
C3_FatalKeepsCheckpoint ==
    \A i \in 1..Len(steps) :
        steps[i] \in {"fetch_err", "sink_err", "remove_err"} =>
            /\ ~running
            /\ i = Len(steps)
            /\ stateFile # <<lastPollTime>>
            /\ \/ stateFile = <<params.since>>
               \/ stateFile = <<>> /\ params.since = NewStateTimestamp

\* C3 witness: the second cycle's fetch failed after a page of it was
\* enqueued; the first cycle's checkpoint is what is persisted
C3_Witness ==
    /\ ~running
    /\ exitCause = "fetch"
    /\ nextId > firstId
    /\ lastPollTime = 2
    /\ stateFile = <<1>>

\* a record is in the process, from where it can still reach the sink
InProcess(e) ==
    /\ running
    /\ \/ e \in Range(events)
       \/ e \in Range(queue)
       \/ message = <<e>>
       \/ e \in Range(tmpCur)
       \/ lastExists /\ e \in Range(lastContent)

\* C4: across interruptions and restarts no record is skipped: a record the
\* API served for a cycle whose `until` is the persisted checkpoint or
\* before it is at the sink (or still on its way there in the running
\* process).
C4_NoRecordSkipped ==
    \A e \in served : e.cycle \in committed => e \in delivered \/ InProcess(e)

\* C5: a cycle whose fetch returned 0 records takes no step of the flush,
\* and once its state update is done the checkpoint, in memory and on disk,
\* is the `now` captured at the start of the fetch.
C5_EmptyCycle ==
    FetchReturned /\ eventCount = 0 =>
        /\ Range(steps) \cap FlushSteps = {}
        /\ pc \in {"update_state", "sleep", "loop"}
        /\ pc \in {"sleep", "loop"} =>
               /\ currentState = lastPollTime
               /\ stateFile = <<lastPollTime>>
               /\ lastPollTime = params.until

C5_Witness ==
    /\ running
    /\ pc = "sleep"
    /\ eventCount = 0
    /\ steps = <<"fetch", "save">>
    /\ stateFile = <<lastPollTime>>
    /\ lastPollTime = 2

\* C6: after any error of the fetcher, the checkpoint store or the output
\* sink (Rotate included) the poll loop takes no further step: the error
\* is the last step of the cycle and the process has ended.
C6_ErrorsAreFatal ==
    \A i \in 1..Len(steps) :
        steps[i] \in ErrorSteps => i = Len(steps) /\ ~running

\* C7: the channel never holds more than its capacity, what was sent is
\* exactly what was received followed by what is queued (nothing dropped,
\* nothing twice), the send after the capacity-th completes only once
\* something was received, and every record sent is eventually received.
C7_Backpressure ==
    /\ [](/\ Len(queue) <= maxMessages
          /\ sentLog = recvLog \o queue
          /\ \A i, j \in 1..Len(sentLog) : i # j => sentLog[i] # sentLog[j]
          /\ Len(sentLog) > maxMessages => Len(recvLog) >= 1)
    /\ \A i \in 1..MaxEvents : (Len(sentLog) >= i) ~> (Len(recvLog) >= i)

\* C7 witness: one more record than the capacity was sent in one cycle and
\* the channel is full again
C7_Witness ==
    /\ Len(SentThisCycle) = maxMessages + 1
    /\ Len(queue) = maxMessages

\* C8: the records are sent in the order the API served them, page after
\* page, and the WriteLog calls are a prefix of the sends.
C8_OrderPreserved ==
    /\ IsPrefix(writeLog, sentLog)
    /\ \A i, j \in 1..Len(sentLog) : i < j => sentLog[i].id < sentLog[j].id
    /\ \A i \in 1..Len(SentThisCycle) : SentThisCycle[i].id = firstId + i - 1

\* C8 witness: the records of two pages of one cycle have all been written
C8_Witness ==
    /\ pages = 2
    /\ Len(SentThisCycle) = 3
    /\ writeLog = SentThisCycle

\* C9: with every request succeeding, GetLogs ends; when it has returned it
\* has made one request per page and its count is the number of records
\* the API served to it, which is the number it enqueued.
C9_PaginationTerminates ==
    /\ [](FetchReturned =>
              /\ calls = pages
              /\ eventCount = nextId - firstId
              /\ eventCount = Len(SentThisCycle))
    /\ [](pc \in {"request", "send"} => pages <= MaxPages /\ calls <= MaxPages)
    /\ (pc = "request") ~> (pc \notin {"request", "send"})

\* C9 witness: GetLogs has returned 3 after two pages
C9_Witness ==
    /\ FetchReturned
    /\ steps = <<"fetch">>
    /\ pages = 2
    /\ eventCount = 3

\* C10: a next entry whose URL has no `after` parameter yields the empty
\* cursor, and GetLogs then makes no further request: it returns the count
\* of the records collected so far, without error.
C10_NoAfterEndsPagination ==
    /\ [](getResultsOffset(HNextNoAfter) = "")
    /\ [](response = HNextNoAfter => newAfterLink = "")
    /\ [][(pc = "send" /\ response = HNextNoAfter /\ pc' # "send" /\ running')
            => /\ calls' = calls
               /\ pc' \in {"drain", "update_state"}
               /\ steps' = Append(steps, "fetch")
               /\ eventCount' = nextId - firstId]_vars

\* C10 witness: the second page came with such a next entry; the records of
\* both pages are sent and GetLogs is about to return
C10_Witness ==
    /\ running
    /\ pc = "send"
    /\ response = HNextNoAfter
    /\ pages = 2
    /\ sendIdx = Len(events)
    /\ count + Len(events) = 3

\* b to the power n
RECURSIVE Pow(_, _)
Pow(b, n) == IF n = 0 THEN 1 ELSE b * Pow(b, n - 1)

\* C11: within one makeRetryableHttpCall the k-th retry is preceded by a
\* sleep of exactly initialBackoffMS * backoffFactor^(k-1) ms, no sleep is
\* longer than maxBackoffMS, and once the next delay exceeds the cap the
\* call sleeps no more: it returns on the next response.
C11_BackoffSchedule ==
    /\ [](/\ \A k \in 1..Len(sleeps) :
              /\ sleeps[k] = initialBackoffMS * Pow(backoffFactor, k - 1)
              /\ sleeps[k] <= maxBackoffMS
          /\ backoffMs = initialBackoffMS * Pow(backoffFactor, Len(sleeps)))
    /\ [][(running /\ pc = "request" /\ backoffMs > maxBackoffMS)
            => (Len(sleeps') <= Len(sleeps) /\ backoffMs' <= backoffMs)]_vars

\* six 429s were slept on (1000 .. 32000 ms) and the next delay is over
\* the cap
C11_Witness ==
    /\ running /\ pc = "request"
    /\ Len(sleeps) = 6
    /\ sleeps[6] = maxBackoffMS
    /\ backoffMs > maxBackoffMS

\* C12: when every attempt is answered 429 the call stops after finitely
\* many attempts, and the throttling reaches the poll loop as an error:
\* the response the call gave up on is never taken for a page of records.
C12_ThrottlingIsAnError ==
    /\ backoffMs <= maxBackoffMS * backoffFactor
    /\ resp.status = rateLimitHttpCode => (~running /\ exitCause = "fetch")

\* a response whose status is neither 200 nor 429
BadStatus(r) == ~r.err /\ r.status \notin {0, StatusOK, rateLimitHttpCode}

\* C13: a response whose status is neither 200 nor 429 fails the fetch at
\* once: no sleep, no further attempt, the process exits on the fetch
\* error, and no record of that response is served to the channel.
C13_BadStatusFails ==
    /\ [](BadStatus(resp) =>
            /\ ~running /\ exitCause = "fetch"
            /\ steps[Len(steps)] = "fetch_err"
            /\ sleeps = <<>> /\ queue = <<>>)
    /\ [][(running /\ BadStatus(resp'))
            => (served' = served /\ nextId' = nextId
                /\ delivered' = delivered /\ stateFile' = stateFile)]_vars

\* the second page of a call is answered with a 500
C13_Witness ==
    /\ ~running /\ exitCause = "fetch"
    /\ BadStatus(resp)
    /\ params.after # ""
    /\ served # {}

\* the steps of a cycle that fetched nothing, and of one that flushed
EmptyCycleSteps == <<"fetch", "save", "sleep">>
FullCycleSteps ==
    <<"fetch", "drain", "rotate", "sink", "remove", "save", "sleep">>

\* C14: at most one fetch cycle is in flight: a new cycle starts only from
\* the top of the loop, after the previous cycle's fetch, drain, flush and
\* checkpoint steps have all finished, and while a fetch runs no step of
\* a flush is pending.
C14_OneCycleInFlight ==
    /\ [](running /\ pc \in {"request", "send"} => steps = <<>>)
    /\ [][cycle' # cycle =>
            /\ cycle' = cycle + 1
            /\ pc = "loop" /\ pc' = "request"
            /\ cycle > 0 => steps \in {EmptyCycleSteps, FullCycleSteps}]_vars

\* the second cycle is fetching, after a first cycle that flushed
C14_Witness ==
    /\ running /\ pc = "request"
    /\ cycle = 2
    /\ 1 \in committed
    /\ delivered # {}

\* a step of the consumer (every one moves cpc)
ConsumerStep == cpc' # cpc

\* what only pollEvery and the fetch write
PollerOwned ==
    <<pc, stateVars, timeVars, fetchVars, eventCount, LastFilePath,
      lastContent, lastExists, delivered, steps, sentLog>>

\* what only the consumer writes
ConsumerOwned == <<message, writeLog, recvLog>>

\* C15: the queue is the only state both tasks touch: the open temp file
\* (which the consumer's WriteLog appends to) and LastFilePath are each
\* written by one task only.
C15_QueueOnlySharedState ==
    [][running' =>
        /\ ConsumerStep => UNCHANGED PollerOwned
        /\ ~ConsumerStep => UNCHANGED <<ConsumerOwned, tmpCur>>]_vars

\* C15 (amended): the queue and the temp writer's open file are the only
\* state both tasks touch (the consumer appends to the open file, the
\* poll loop's Rotate closes it and starts a new one); LastFilePath and
\* everything else is written by one task only.
C15_QueueAndOpenFileShared ==
    [][running' =>
        /\ ConsumerStep => UNCHANGED PollerOwned
        /\ ~ConsumerStep => UNCHANGED ConsumerOwned]_vars

\* the consumer wrote a record to the open file and Rotate closed it
C15_Witness ==
    /\ running
    /\ LastFilePath /\ lastContent # <<>>
    /\ writeLog # <<>>

\* C16: `until` is captured once per cycle, before the first request, and
\* every request of the cycle carries it; the checkpoint saved at the end
\* is that value; the next cycle's `since` is the previous cycle's `until`.
C16_UntilIsCheckpoint ==
    /\ [](running /\ pc \in {"request", "send"} =>
            (params.until = lastPollTime /\ params.since = currentState))
    /\ [][(running' /\ <<params.until, lastPollTime>>' #
                       <<params.until, lastPollTime>>)
            => (cycle' = cycle + 1 /\ calls' = 1 /\ pages' = 0)]_vars
    /\ [][<<stateFile, committed>>' # <<stateFile, committed>>
            => (stateFile' = <<params.until>>
                /\ currentState' = params.until)]_vars
    /\ [][(cycle' = cycle + 1 /\ cycle \in committed)
            => params'.since = params.until]_vars

\* the second page of the second cycle is being fetched: since is the first
\* cycle's until, which is the saved checkpoint
C16_Witness ==
    /\ running /\ pc = "request"
    /\ cycle = 2 /\ calls = 2
    /\ params.since = 1 /\ params.until = 2
    /\ stateFile = <<1>>

\* a Rotate whose error was discarded still is the cycle's Rotate step
StepOf(st) == IF st = "rotate_err" THEN "rotate" ELSE st

\* C17: in a cycle that fetched records the steps come in the order fetch,
\* drain, Rotate, sink write, removal, checkpoint save, sleep; the temp
\* file is removed only after a successful sink write and the checkpoint
\* is saved only after the removal succeeded.
C17_StepOrder ==
    /\ []((FetchReturned /\ eventCount > 0) =>
            /\ Len(steps) <= Len(FullCycleSteps)
            /\ \A i \in 1..Len(steps) : StepOf(steps[i]) = FullCycleSteps[i])
    /\ [][(running' /\ lastExists /\ ~lastExists')
            => steps[Len(steps)] = "sink"]_vars
    /\ [][(committed' # committed /\ eventCount > 0)
            => steps[Len(steps)] = "remove"]_vars

\* a cycle with records ran all seven steps
C17_Witness ==
    /\ running /\ pc = "loop"
    /\ eventCount > 0
    /\ steps = FullCycleSteps

\* the link-header shapes without a usable cursor: no header, one entry,
\* two entries whose second is no well-formed rel="next" link, two entries
\* with an unparsable URL, more than two entries
NoCursorShapes ==
    {HNone, HSelfOnly, HSeparate, HNextFirst, HMalformed, HBadUrl, HThree}

\* C18: for every link-header shape without a usable cursor
\* getResultsOffset returns the empty cursor; it never crashes the process
\* and never fails the fetch.
C18_MalformedLinkIsNoCursor ==
    /\ exitCause # "panic"
    /\ (running /\ pc = "send" /\ response \in NoCursorShapes)
           => newAfterLink = ""

\* C19: within one GetLogs call the first request carries no cursor, the
\* request for page k+1 carries as `after` the cursor extracted from page
\* k's response, and limit, since and until are the same in every request.
C19_CursorChain ==
    /\ [](running /\ pc \in {"request", "send"} =>
            /\ params.limit = limit
            /\ params.since = currentState
            /\ params.until = lastPollTime
            /\ calls = 1 => params.after = ""
            /\ calls > 1 => (params.after = afterLink /\ afterLink # ""))
    /\ [][(running' /\ calls >= 1 /\ calls' = calls + 1) =>
            /\ params'.after = getResultsOffset(response)
            /\ params'.after # ""
            /\ params'.limit = params.limit
            /\ params'.since = params.since
            /\ params'.until = params.until]_vars

\* the request for the second page carries the cursor of the first
C19_Witness ==
    /\ running /\ pc = "request"
    /\ calls = 2 /\ pages = 1
    /\ params.after = "y"

\* C20: a fetch whose first page is empty returns count 0 and has sent
\* nothing to the channel.
C20_EmptyFirstPage ==
    (FetchReturned /\ firstPageEmpty) =>
        (eventCount = 0 /\ SentThisCycle = <<>>)

\* C20 (amended): a fetch whose first page is empty and carries no cursor
\* returns count 0 without error and has sent nothing to the channel.
C20_EmptyOnlyPage ==
    /\ []((FetchReturned /\ firstPageEmpty /\ pages = 1) =>
            (eventCount = 0 /\ SentThisCycle = <<>>))
    /\ [][(running /\ pc = "send" /\ pages = 1 /\ events = <<>>
            /\ newAfterLink = "" /\ running' /\ pc' # pc)
            => (pc' = "update_state" /\ eventCount' = 0
                /\ steps' = <<"fetch">> /\ sentLog' = sentLog)]_vars

\* the only page of a fetch was empty and the fetch returned 0
C20_Witness ==
    /\ FetchReturned
    /\ firstPageEmpty /\ pages = 1
    /\ eventCount = 0

\* the events the API has served to the GetLogs call of this cycle
ServedThisCycle == {e \in served : e.cycle = cycle}

\* C21: records are streamed page by page: whenever a request is issued,
\* every record of the pages read so far is already sent to the channel,
\* and the request for the next page is issued only when the whole page
\* is sent; the consumer may write them while later pages are fetched.
C21_StreamedPerPage ==
    /\ [](running /\ pc = "request" =>
            /\ Range(SentThisCycle) = ServedThisCycle
            /\ count = Len(SentThisCycle)
            /\ events = <<>>)
    /\ [][(running' /\ calls >= 1 /\ calls' = calls + 1)
            => (sendIdx = Len(events)
                /\ Range(events) \subseteq Range(sentLog))]_vars

\* the request for the second page is in flight and the consumer has
\* written a record of the first page
C21_Witness ==
    /\ running /\ pc = "request"
    /\ calls = 2 /\ pages = 1
    /\ \E i \in 1..Len(writeLog) : writeLog[i].cycle = cycle

\* C22: a transport error on any attempt, also one that follows rate-limit
\* retries, is returned at once: the attempt's outcome is the error
\* whatever the backoff has grown to, no sleep and no further attempt
\* follow, and the process exits on the fetch error.
C22_TransportErrorFails ==
    /\ [](running /\ pc = "request" =>
            \A s \in Statuses : HttpOutcome(TRUE, s, backoffMs) = "error")
    /\ [](resp.err =>
            /\ ~running /\ exitCause = "fetch"
            /\ steps[Len(steps)] = "fetch_err"
            /\ queue = <<>>)
    /\ [][(running /\ resp'.err)
            => (/\ pc = "request"
                /\ resp'.slept = Len(sleeps)
                /\ Len(sleeps') <= Len(sleeps)
                /\ served' = served /\ nextId' = nextId
                /\ delivered' = delivered /\ stateFile' = stateFile)]_vars

\* the attempt after two rate-limit retries met a transport error
C22_Witness ==
    /\ ~running /\ exitCause = "fetch"
    /\ resp.err
    /\ resp.slept = 2

\* C23: the backoff is per request: every makeRetryableHttpCall (one per
\* page) starts with the initial delay of 1000 ms and no sleep made,
\* whatever retries the earlier pages of the fetch needed.
C23_BackoffPerRequest ==
    /\ [](running /\ pc = "request" /\ sleeps = <<>>
            => backoffMs = initialBackoffMS)
    /\ [][(running' /\ calls' # calls)
            => (pc' = "request" /\ backoffMs' = initialBackoffMS
                /\ sleeps' = <<>>)]_vars

\* the request for the second page starts at the initial delay after the
\* first page was rate-limited
C23_Witness ==
    /\ running /\ pc = "request"
    /\ calls = 2
    /\ prevRetried
    /\ sleeps = <<>> /\ backoffMs = initialBackoffMS

\* the send of the next event waits for room in the channel
SendBlocked ==
    /\ pc = "send" /\ sendIdx < Len(events)
    /\ Len(queue) = maxMessages

\* C24: with a fairly scheduled consumer and every external call
\* succeeding there is no deadlock: a send blocked on the full channel is
\* eventually unblocked, the drain wait eventually ends, every cycle that
\* started eventually saves its checkpoint and sleeps, and then the next
\* cycle starts (as long as the clock allows a further cycle).
C24_NoDeadlock ==
    /\ SendBlocked ~> ~SendBlocked
    /\ (pc = "drain") ~> (pc = "rotate" /\ queue = <<>>)
    /\ \A c \in 1..MaxClock :
           (cycle = c /\ pc = "request") ~> (pc = "sleep" /\ c \in committed)
    /\ \A c \in 1..(MaxClock - 1) :
           (cycle = c /\ pc = "sleep") ~> (cycle = c + 1 /\ pc = "request")

\* the second cycle has started after a first cycle that sent more records
\* than the channel holds, flushed them and saved its checkpoint
C24_Witness ==
    /\ running /\ pc = "request"
    /\ cycle = 2 /\ 1 \in committed
    /\ Len(recvLog) > maxMessages
    /\ delivered # {}

====
